---- MODULE Spec2Model ----
(***************************************************************************)
(* Filters on close approaches (filters.py): the AttributeFilter family,   *)
(* create_filters, and the limit generator, composed with the database's   *)
(* query generator and a consumer of the limited stream.                   *)
(***************************************************************************)
EXTENDS Integers, Sequences, FiniteSets, TLC

(***************************************************************************)
(* Bounds of the model.                                                    *)
(***************************************************************************)
\* longest finite source sequence handed to limit
MaxSrcLen == 3
\* largest positive n handed to limit
MaxN == 3
\* most negative n handed to limit is -MaxNeg
MaxNeg == 2
\* longest approach collection of the database
MaxApproaches == 2
\* most criteria given together on one command line of the query runs
MaxCriteria == 2

\* an infinite source is observed for at most this many pulls
MaxPulls == MaxN + 2

(***************************************************************************)
(* Python values.  Every value is a record [k, v]: k is the Python type,   *)
(* v the payload (0 where the type has none).                              *)
(***************************************************************************)
None == [k |-> "None", v |-> 0]
PyInt(x) == [k |-> "int", v |-> x]
Float(x) == [k |-> "float", v |-> x]
\* float('nan')
NaN == [k |-> "nan", v |-> 0]
Bool(b) == [k |-> "bool", v |-> IF b THEN 1 ELSE 0]
\* datetime.date: v is the day number
Date(d) == [k |-> "date", v |-> d]

\* times of day of a datetime, and how many there are in a day
TimesOfDay == {0, 1}
TimesPerDay == Cardinality(TimesOfDay)
\* datetime.datetime: v orders datetimes by day, then time of day
DateTime(d, t) == [k |-> "datetime", v |-> d * TimesPerDay + t]

Numeric(x) == x.k \in {"int", "float", "nan", "bool"}

(***************************************************************************)
(* The comparators of the operator module, with Python 3 semantics: the    *)
(* outcome is "True", "False" or the exception raised.  A datetime is a    *)
(* date that compares equal to no plain date and is not ordered with one.  *)
(***************************************************************************)
operator_eq(x, y) ==
    IF x.k = "nan" \/ y.k = "nan" THEN "False"
    ELSE IF Numeric(x) /\ Numeric(y) THEN (IF x.v = y.v THEN "True" ELSE "False")
    ELSE IF x.k = y.k /\ x.v = y.v THEN "True"
    ELSE "False"

Ordered(x, y) ==
    \/ Numeric(x) /\ Numeric(y)
    \/ x.k = y.k /\ x.k \in {"date", "datetime"}

operator_ge(x, y) ==
    IF ~Ordered(x, y) THEN "TypeError"
    ELSE IF x.k = "nan" \/ y.k = "nan" THEN "False"
    ELSE IF x.v >= y.v THEN "True" ELSE "False"

operator_le(x, y) ==
    IF ~Ordered(x, y) THEN "TypeError"
    ELSE IF x.k = "nan" \/ y.k = "nan" THEN "False"
    ELSE IF x.v <= y.v THEN "True" ELSE "False"

Ops == {"eq", "ge", "le"}

ApplyOp(op, x, y) ==
    CASE op = "eq" -> operator_eq(x, y)
      [] op = "ge" -> operator_ge(x, y)
      [] op = "le" -> operator_le(x, y)

(***************************************************************************)
(* Close approaches and their NEOs, as the filters read them.              *)
(***************************************************************************)
\* the diameter of a NEO whose diameter is unknown: None (DiameterFilter.get,
\* write_to_csv) or the float nan of the data model
UnknownDiameters == {None, NaN}

MkApproach(d, t, distance, velocity, diameter, hazardous) ==
    [time |-> DateTime(d, t),
     distance |-> Float(distance),
     velocity |-> Float(velocity),
     neo |-> [diameter |-> diameter, hazardous |-> Bool(hazardous)]]

\* the days on which the approaches of the database fall
Days == {1, 2, 3}

\* the approaches of the database: three dates, distances 0.1, 0.3, 0.5 AU
\* (in tenths), known and unknown diameters, hazardous and not
Approaches ==
    { MkApproach(1, 0, 1, 1, Float(7), TRUE),
      MkApproach(1, 1, 3, 3, None, FALSE),
      MkApproach(2, 0, 3, 2, Float(3), FALSE),
      MkApproach(2, 1, 5, 3, NaN, TRUE),
      MkApproach(3, 0, 5, 1, Float(7), FALSE),
      MkApproach(3, 1, 1, 2, Float(3), TRUE) }

(***************************************************************************)
(* AttributeFilter and its subclasses.  A filter is [cls, op, value].      *)
(***************************************************************************)
UnsupportedCriterionError == [k |-> "UnsupportedCriterionError", v |-> 0]

AttributeFilter(cls, op, value) == [cls |-> cls, op |-> op, value |-> value]

\* slip: the base selector falls through (`pass`) instead of raising
AttributeFilter_get_Pass(approach) == None

AttributeFilter_get(approach) == UnsupportedCriterionError

\* datetime.date(): the calendar date of a datetime, its time of day dropped
datetime_date(dt) == Date(dt.v \div TimesPerDay)

\* slip: the selector returns approach.time, without .date()
DateFilter_get_Time(approach) == approach.time

DateFilter_get(approach) == datetime_date(approach.time)

DistanceFilter_get(approach) == approach.distance

VelocityFilter_get(approach) == approach.velocity

DiameterFilter_get(approach) == approach.neo.diameter

HazardousFilter_get(approach) == approach.neo.hazardous

ConcreteFilters ==
    {"DateFilter", "DistanceFilter", "VelocityFilter", "DiameterFilter", "HazardousFilter"}

\* self.get(approach): the classmethod of the filter's class
get(cls, approach) ==
    CASE cls = "DateFilter" -> DateFilter_get(approach)
      [] cls = "DistanceFilter" -> DistanceFilter_get(approach)
      [] cls = "VelocityFilter" -> VelocityFilter_get(approach)
      [] cls = "DiameterFilter" -> DiameterFilter_get(approach)
      [] cls = "HazardousFilter" -> HazardousFilter_get(approach)
      [] OTHER -> AttributeFilter_get(approach)

\* AttributeFilter.__call__: the outcome of self(approach)
Call(f, approach) ==
    LET x == get(f.cls, approach)
    IN  IF x = UnsupportedCriterionError THEN "UnsupportedCriterionError"
        ELSE ApplyOp(f.op, x, f.value)

(***************************************************************************)
(* create_filters                                                          *)
(***************************************************************************)
CriteriaNames ==
    {"date", "start_date", "end_date", "distance_min", "distance_max",
     "velocity_min", "velocity_max", "diameter_min", "diameter_max", "hazardous"}

\* every combination of the ten criteria, each None or a value
CriteriaSpace ==
    [date : {None, Date(2)},
     start_date : {None, Date(2)},
     end_date : {None, Date(2)},
     distance_min : {None, Float(3)},
     distance_max : {None, Float(3)},
     velocity_min : {None, Float(2)},
     velocity_max : {None, Float(2)},
     diameter_min : {None, Float(0), Float(5)},
     diameter_max : {None, Float(5)},
     hazardous : {None, Bool(TRUE), Bool(FALSE)}]

Given(c) == {name \in CriteriaNames : c[name] # None}

\* slip: `if x:` in place of `if x is not None:`
AppendIfTruthy(x, cls, op) ==
    IF x # None /\ x.v # 0 THEN <<AttributeFilter(cls, op, x)>> ELSE <<>>

\* `if x is not None: command_filters.append(Cls(op, x))`
AppendIfGiven(x, cls, op) ==
    IF x # None THEN <<AttributeFilter(cls, op, x)>> ELSE <<>>

\* slip: the end_date line copied from the start_date line, comparator kept
create_filters_EndDateGe(c) ==
    AppendIfGiven(c.date, "DateFilter", "eq")
    \o AppendIfGiven(c.start_date, "DateFilter", "ge")
    \o AppendIfGiven(c.end_date, "DateFilter", "ge")
    \o AppendIfGiven(c.distance_min, "DistanceFilter", "ge")
    \o AppendIfGiven(c.distance_max, "DistanceFilter", "le")
    \o AppendIfGiven(c.velocity_min, "VelocityFilter", "ge")
    \o AppendIfGiven(c.velocity_max, "VelocityFilter", "le")
    \o AppendIfGiven(c.diameter_min, "DiameterFilter", "ge")
    \o AppendIfGiven(c.diameter_max, "DiameterFilter", "le")
    \o AppendIfGiven(c.hazardous, "HazardousFilter", "eq")

create_filters(c) ==
    AppendIfGiven(c.date, "DateFilter", "eq")
    \o AppendIfGiven(c.start_date, "DateFilter", "ge")
    \o AppendIfGiven(c.end_date, "DateFilter", "le")
    \o AppendIfGiven(c.distance_min, "DistanceFilter", "ge")
    \o AppendIfGiven(c.distance_max, "DistanceFilter", "le")
    \o AppendIfGiven(c.velocity_min, "VelocityFilter", "ge")
    \o AppendIfGiven(c.velocity_max, "VelocityFilter", "le")
    \o AppendIfGiven(c.diameter_min, "DiameterFilter", "ge")
    \o AppendIfGiven(c.diameter_max, "DiameterFilter", "le")
    \o AppendIfGiven(c.hazardous, "HazardousFilter", "eq")

(***************************************************************************)
(* NEODatabase.query: yields, in the order of the collection, the          *)
(* approaches on which all filters are true.  all() stops at the first     *)
(* filter that is not true; an exception raised by a filter propagates.    *)
(***************************************************************************)
RECURSIVE AllFrom(_, _, _)
AllFrom(F, approach, k) ==
    IF k > Len(F) THEN "True"
    ELSE LET r == Call(F[k], approach)
         IN  IF r = "True" THEN AllFrom(F, approach, k + 1) ELSE r

Matches(F, approach) == AllFrom(F, approach, 1)

(***************************************************************************)
(* State.                                                                  *)
(***************************************************************************)
VARIABLES
    criteria,    \* the ten arguments of create_filters
    filters,     \* command_filters, once create_filters has returned
    built,       \* whether create_filters has returned
    evalr,       \* the last direct evaluation of a filter: [f, approach, outcome]
    approaches,  \* the database's collection of close approaches
    qpos,        \* how many approaches the query generator has visited
    source,      \* the iterator handed to limit
    n,           \* the n handed to limit
    lpc,         \* where the limit generator stands
    i,           \* the counter of enumerate(iterator)
    pulled,      \* how many items limit has taken from its iterator
    out,         \* the items the consumer has received
    consumer     \* "active" or "stopped"

vars == <<criteria, filters, built, evalr, approaches, qpos, source, n, lpc, i,
          pulled, out, consumer>>

filterVars == <<criteria, filters, built, evalr>>
limitVars == <<source, n, lpc, i, pulled, out, consumer>>

NoCriteria == [name \in CriteriaNames |-> None]
NoEval == [f |-> AttributeFilter("none", "eq", None), approach |-> None, outcome |-> "none"]

\* a finite iterator over items, an endless one counting up from base, or the
\* generator returned by query
ListSource(items) == [kind |-> "list", items |-> items, base |-> 0]
CountSource(base) == [kind |-> "count", items |-> <<>>, base |-> base]
QuerySource == [kind |-> "query", items |-> <<>>, base |-> 0]

Items == {0, 1}
SeqsUpTo(S, len) == UNION {[1..m -> S] : m \in 0..len}

\* the k-th item (from 1) the source produces
SourceItem(k) ==
    CASE source.kind = "list" -> source.items[k]
      [] source.kind = "count" -> source.base + k - 1
      [] source.kind = "query" -> approaches[qpos]

SourceExhausted ==
    source.kind = "list" /\ pulled >= Len(source.items)

NValues == {None} \cup {PyInt(x) : x \in (0 - MaxNeg)..MaxN}

\* slip: `n is None or n <= 0`
Unlimited_NonPositive(m) == m = None \/ operator_le(m, PyInt(0)) = "True"

\* line 249: `n is None or n == 0`
Unlimited(m) == m = None \/ operator_eq(m, PyInt(0)) = "True"

(***************************************************************************)
(* create_filters, and direct evaluations of filters.                      *)
(***************************************************************************)
CreateFilters ==
    /\ ~built
    /\ filters' = create_filters(criteria)
    /\ built' = TRUE
    /\ UNCHANGED <<criteria, evalr, approaches, qpos, limitVars>>

\* filters[k](approach), on an approach of the collection
Evaluate ==
    /\ built
    /\ \E k \in 1..Len(filters), j \in 1..Len(approaches) :
          evalr' = [f |-> filters[k], approach |-> approaches[j],
                    outcome |-> Call(filters[k], approaches[j])]
    /\ UNCHANGED <<criteria, filters, built, approaches, qpos, limitVars>>

\* AttributeFilter(op, value)(approach)
EvaluateBase ==
    /\ \E op \in Ops, j \in 1..Len(approaches) :
          LET f == AttributeFilter("AttributeFilter", op, Float(3))
          IN  evalr' = [f |-> f, approach |-> approaches[j],
                        outcome |-> Call(f, approaches[j])]
    /\ UNCHANGED <<criteria, filters, built, approaches, qpos, limitVars>>

(***************************************************************************)
(* limit(iterator, n), its source and its consumer.                        *)
(*   lpc: "start"    created, not yet run                                  *)
(*        "next"     resumed, asking the iterator for its next item        *)
(*        "item"     the iterator has produced an item                     *)
(*        "yielded"  suspended at a yield                                  *)
(*        "done"     returned; "closed" abandoned by the consumer          *)
(*        "TypeError" an exception of the source has propagated            *)
(***************************************************************************)
\* next(limit(...)) by the consumer
ConsumerRequest ==
    /\ consumer = "active"
    /\ lpc \in {"start", "yielded"}
    /\ source.kind = "query" => built
    /\ lpc' = "next"
    /\ UNCHANGED <<filterVars, approaches, qpos, source, n, i, pulled, out, consumer>>

\* the consumer stops early and drops the generator
ConsumerStop ==
    /\ consumer = "active"
    /\ lpc \in {"start", "yielded"}
    /\ consumer' = "stopped"
    /\ lpc' = "closed"
    /\ UNCHANGED <<filterVars, approaches, qpos, source, n, i, pulled, out>>

\* next() on a list or counting iterator
SourceNext ==
    /\ lpc = "next"
    /\ source.kind # "query"
    /\ source.kind = "count" => pulled < MaxPulls
    /\ IF SourceExhausted
       THEN lpc' = "done" /\ pulled' = pulled
       ELSE lpc' = "item" /\ pulled' = pulled + 1
    /\ UNCHANGED <<filterVars, approaches, qpos, source, n, i, out, consumer>>

\* next() on the query generator: one approach of the collection is visited
QueryNext ==
    /\ lpc = "next"
    /\ source.kind = "query"
    /\ IF qpos >= Len(approaches)
       THEN lpc' = "done" /\ UNCHANGED <<qpos, pulled>>
       ELSE LET r == Matches(filters, approaches[qpos + 1])
            IN  /\ qpos' = qpos + 1
                /\ lpc' = (CASE r = "True" -> "item"
                             [] r = "False" -> "next"
                             [] OTHER -> r)
                /\ pulled' = IF r = "True" THEN pulled + 1 ELSE pulled
    /\ UNCHANGED <<filterVars, approaches, source, n, i, out, consumer>>

\* slip: `if i > n: break`
limit_OffByOne ==
    /\ lpc = "item"
    /\ IF Unlimited(n)
       THEN /\ out' = Append(out, SourceItem(pulled))
            /\ lpc' = "yielded"
            /\ i' = i
       ELSE /\ i' = i + 1
            /\ IF i > n.v
               THEN lpc' = "done" /\ out' = out
               ELSE lpc' = "yielded" /\ out' = Append(out, SourceItem(pulled))
    /\ UNCHANGED <<filterVars, approaches, qpos, source, n, pulled, consumer>>

\* slip: the loop counts but never breaks
limit_NoBreak ==
    /\ lpc = "item"
    /\ out' = Append(out, SourceItem(pulled))
    /\ lpc' = "yielded"
    /\ i' = IF Unlimited(n) THEN i ELSE i + 1
    /\ UNCHANGED <<filterVars, approaches, qpos, source, n, pulled, consumer>>

\* lines 250 and 252-255, with an item of the iterator in hand
limit ==
    /\ lpc = "item"
    /\ IF Unlimited(n)
       THEN /\ out' = Append(out, SourceItem(pulled))
            /\ lpc' = "yielded"
            /\ i' = i
       ELSE /\ i' = i + 1
            /\ IF i >= n.v
               THEN lpc' = "done" /\ out' = out
               ELSE lpc' = "yielded" /\ out' = Append(out, SourceItem(pulled))
    /\ UNCHANGED <<filterVars, approaches, qpos, source, n, pulled, consumer>>

(***************************************************************************)
(* Specifications.                                                         *)
(***************************************************************************)
IdleLimit ==
    /\ lpc = "start" /\ i = 0 /\ pulled = 0 /\ out = <<>> /\ consumer = "active"
    /\ qpos = 0

IdleFilters ==
    /\ filters = <<>> /\ built = FALSE /\ evalr = NoEval

\* create_filters on every combination of criteria, and single evaluations
InitFilters ==
    /\ criteria \in CriteriaSpace
    /\ IdleFilters
    /\ approaches \in {<<a>> : a \in Approaches}
    /\ source = QuerySource
    /\ n = None
    /\ IdleLimit

NextFilters == CreateFilters \/ Evaluate \/ EvaluateBase

SpecFilters == InitFilters /\ [][NextFilters]_vars

\* limit over a list or an endless iterator
InitLimit ==
    /\ criteria = NoCriteria
    /\ IdleFilters
    /\ approaches = <<>>
    /\ source \in {ListSource(s) : s \in SeqsUpTo(Items, MaxSrcLen)}
                    \cup {CountSource(b) : b \in Items}
    /\ n \in NValues
    /\ IdleLimit

NextLimit == ConsumerRequest \/ ConsumerStop \/ SourceNext \/ limit

SpecLimit == InitLimit /\ [][NextLimit]_vars

\* a consumer that keeps requesting items: it never stops early, and the
\* single thread always runs the next step
NextDrain == ConsumerRequest \/ SourceNext \/ limit

SpecLimitFair == InitLimit /\ [][NextDrain]_vars /\ WF_vars(NextDrain)

\* main: create_filters, query, limit, and the writer consuming the stream
InitQuery ==
    /\ criteria \in {c \in CriteriaSpace : Cardinality(Given(c)) <= MaxCriteria}
    /\ IdleFilters
    /\ approaches \in SeqsUpTo(Approaches, MaxApproaches)
    /\ source = QuerySource
    /\ n \in {None, PyInt(1)}
    /\ IdleLimit

NextQuery == CreateFilters \/ ConsumerRequest \/ ConsumerStop \/ QueryNext \/ limit

SpecQuery == InitQuery /\ [][NextQuery]_vars

(***************************************************************************)
(* Properties.                                                             *)
(***************************************************************************)
Min(a, b) == IF a <= b THEN a ELSE b
Range(s) == {s[k] : k \in 1..Len(s)}
Positive(m) == m.k = "int" /\ m.v > 0
Negative(m) == m.k = "int" /\ m.v < 0

\* C1: a consumer that drains limit(S, N) over a finite S, N None or >= 0, has
\* received exactly the first min(N, len(S)) items of S in order when N > 0,
\* and exactly S when N is 0 or None.
C1_LimitYieldsPrefix ==
    (source.kind = "list" /\ ~Negative(n) /\ lpc = "done")
        => out = SubSeq(source.items, 1,
                        IF Positive(n) THEN Min(n.v, Len(source.items))
                        ELSE Len(source.items))

C1_Witness ==
    /\ source.kind = "list" /\ Len(source.items) = 3
    /\ n = PyInt(2) /\ lpc = "done"
    /\ out = SubSeq(source.items, 1, 2)
    /\ out[1] # out[2]

\* C2: for N > 0, limit never takes more than N items from its source,
\* whatever the consumer does.
C2_NoPullBeyondN == Positive(n) => pulled <= n.v

\* the pull that C2 rules out: N items emitted, the consumer asks again, and
\* limit takes item N+1 from a longer source before it breaks
C2_ExtraPull ==
    /\ Positive(n) /\ source.kind = "list" /\ Len(source.items) > n.v
    /\ Len(out) = n.v /\ pulled = n.v + 1 /\ lpc = "done"

\* C7: over an endless source and N > 0, a consumer that keeps requesting
\* items eventually sees limit finish, having received exactly N items, and
\* limit stops taking items from the source (at most N + 1 are ever taken).
C7_FinishesOnEndlessSource ==
    /\ (source.kind = "count" /\ Positive(n)) ~> (lpc = "done" /\ Len(out) = n.v)
    /\ []((source.kind = "count" /\ Positive(n)) => pulled <= n.v + 1)
    /\ []((source.kind = "count" /\ Positive(n) /\ lpc = "done")
            => out = [k \in 1..n.v |-> source.base + k - 1])

C7_Witness ==
    /\ source.kind = "count" /\ n = PyInt(MaxN)
    /\ lpc = "done" /\ Len(out) = MaxN

\* C10: for a negative N, limit emits no item, whatever the source.
C10_NegativeYieldsNothing == Negative(n) => (out = <<>> /\ lpc # "yielded")

C10_Witness ==
    /\ Negative(n) /\ lpc = "done" /\ pulled = 1 /\ out = <<>>
    /\ source.kind = "list" /\ Len(source.items) >= 2

\* the variant and comparator the builder is to use for each criterion
ExpectedVariant ==
    [name \in CriteriaNames |->
        CASE name \in {"date", "start_date", "end_date"} -> "DateFilter"
          [] name \in {"distance_min", "distance_max"} -> "DistanceFilter"
          [] name \in {"velocity_min", "velocity_max"} -> "VelocityFilter"
          [] name \in {"diameter_min", "diameter_max"} -> "DiameterFilter"
          [] name = "hazardous" -> "HazardousFilter"]

ExpectedComparator ==
    [name \in CriteriaNames |->
        CASE name \in {"date", "hazardous"} -> "eq"
          [] name \in {"start_date", "distance_min", "velocity_min", "diameter_min"} -> "ge"
          [] name \in {"end_date", "distance_max", "velocity_max", "diameter_max"} -> "le"]

\* the positions of the filters built for a criterion
FiltersFor(name) ==
    {k \in 1..Len(filters) :
        filters[k].cls = ExpectedVariant[name] /\ filters[k].op = ExpectedComparator[name]}

\* C3: create_filters returns exactly one filter per non-None criterion, with
\* the criterion's variant, comparator and value, and no other filter.
C3_OneFilterPerCriterion ==
    built =>
        /\ Len(filters) = Cardinality(Given(criteria))
        /\ \A name \in CriteriaNames :
              IF criteria[name] = None
              THEN FiltersFor(name) = {}
              ELSE /\ Cardinality(FiltersFor(name)) = 1
                   /\ \A k \in FiltersFor(name) : filters[k].value = criteria[name]

C3_Witness ==
    /\ built
    /\ Given(criteria) = {"end_date", "distance_min", "hazardous"}
    /\ Len(filters) = 3

\* C5: hazardous=False builds one HazardousFilter, true exactly on approaches
\* of non-hazardous NEOs; hazardous=None builds no HazardousFilter; a numeric
\* bound of 0 builds its filter.
C5_FalsyCriterionIsPresent ==
    built =>
        /\ criteria.hazardous = Bool(FALSE) =>
              /\ Cardinality({k \in 1..Len(filters) : filters[k].cls = "HazardousFilter"}) = 1
              /\ evalr.f.cls = "HazardousFilter" =>
                    /\ evalr.outcome \in {"True", "False"}
                    /\ evalr.outcome = "True" <=> evalr.approach.neo.hazardous = Bool(FALSE)
        /\ criteria.hazardous = None =>
              /\ \A k \in 1..Len(filters) : filters[k].cls # "HazardousFilter"
              /\ evalr.f.cls # "HazardousFilter"
        /\ criteria.diameter_min = Float(0) =>
              AttributeFilter("DiameterFilter", "ge", Float(0)) \in Range(filters)

C5_Witness ==
    /\ built /\ criteria.hazardous = Bool(FALSE) /\ criteria.diameter_min = Float(0)
    /\ evalr.f.cls = "HazardousFilter" /\ evalr.outcome = "True"
    /\ evalr.approach.neo.hazardous = Bool(FALSE)

\* C6: a DiameterFilter built by create_filters evaluates to false, raising
\* no error, on every approach whose NEO has an unknown diameter.
C6_UnknownDiameterIsFalse ==
    (evalr.f.cls = "DiameterFilter" /\ evalr.approach.neo.diameter \in UnknownDiameters)
        => evalr.outcome = "False"

\* C8: a filter of the base AttributeFilter type always ends in
\* UnsupportedCriterionError, and no filter built by create_filters can.
C8_UnsupportedOnlyOnBase ==
    /\ evalr.f.cls = "AttributeFilter" => evalr.outcome = "UnsupportedCriterionError"
    /\ built =>
          /\ \A k \in 1..Len(filters) : filters[k].cls \in ConcreteFilters
          /\ \A k \in 1..Len(filters), a \in Approaches :
                Call(filters[k], a) # "UnsupportedCriterionError"
    /\ evalr.f.cls \in ConcreteFilters => evalr.outcome # "UnsupportedCriterionError"

C8_Witness ==
    /\ built /\ Len(filters) = Cardinality(CriteriaNames)
    /\ evalr.f.cls = "AttributeFilter"
    /\ evalr.outcome = "UnsupportedCriterionError"

\* C9: the date filters compare the calendar date d of the approach's
\* timestamp (d, t) only: date is true iff d equals the criterion, start_date
\* iff d >= it, end_date iff d <= it, whatever the time of day t.
C9_DateFiltersIgnoreTimeOfDay ==
    /\ built =>
          \A name \in {"date", "start_date", "end_date"} :
              criteria[name] # None =>
                  AttributeFilter("DateFilter", ExpectedComparator[name], criteria[name])
                      \in Range(filters)
    /\ evalr.f.cls = "DateFilter" =>
          \A d \in Days, t \in TimesOfDay :
              evalr.approach.time = DateTime(d, t) =>
                  evalr.outcome =
                      IF CASE evalr.f.op = "eq" -> d = evalr.f.value.v
                           [] evalr.f.op = "ge" -> d >= evalr.f.value.v
                           [] evalr.f.op = "le" -> d <= evalr.f.value.v
                      THEN "True" ELSE "False"

C9_Witness ==
    /\ evalr.f = AttributeFilter("DateFilter", "le", Date(2))
    /\ criteria.end_date = Date(2)
    /\ evalr.approach.time = DateTime(2, 1)
    /\ evalr.outcome = "True"

\* the approaches of the collection on which every filter evaluates true
Passing ==
    LET Test(a) == \A k \in 1..Len(filters) : Call(filters[k], a) = "True"
    IN  SelectSeq(approaches, Test)

Ended == lpc \notin {"start", "next", "item", "yielded", "closed"}

\* C4: the query yields exactly the approaches on which every filter is true,
\* each once and in order; all of them when there is no filter; and under
\* distance_max=0.3 with limit 1, exactly the earliest approach within 0.3.
C4_QueryYieldsPassing ==
    (built /\ Ended) =>
        /\ n = None => out = Passing
        /\ (n = None /\ filters = <<>>) => out = approaches
        /\ (n = PyInt(1) /\ Given(criteria) = {"distance_max"}) =>
              out = SubSeq(Passing, 1, Min(1, Len(Passing)))

\* a run the query finishes: the second of two approaches is the earliest
\* within distance 0.3 and is the one delivered under limit 1
C4_Witness ==
    /\ built /\ lpc = "done" /\ n = PyInt(1)
    /\ Given(criteria) = {"distance_max"}
    /\ Len(approaches) = 2 /\ Len(out) = 1
    /\ out[1] = approaches[2] /\ approaches[1] # approaches[2]

====
